---- MODULE Spec2Model ----
(***************************************************************************)
(* Model of the NewsBreak article publisher: the five-step workflow of     *)
(* main() in newsbreak_api.py (draft-create, image-upload, content-update, *)
(* NLP-calculate, publish) and the response validation of its helpers.     *)
(*                                                                         *)
(* Texts (request fields, response bodies) are sequences of lexical        *)
(* fragments.  The fragments are chosen so that every substring the code   *)
(* tests for ("<html", "<!", "<!DOCTYPE") is one whole fragment; lower(),  *)
(* strip(), startswith(), "in" and json.loads are computed on them.        *)
(***************************************************************************)
EXTENDS Integers, Sequences, FiniteSets, TLC

VARIABLES
    config,          \* ArticleConfig + the content file, fixed for the run
    location,        \* the location argument of make_publish
    pc,              \* position of the script in main()
    article_content, \* main: article_content (the content file as read)
    data_id,         \* main: data_id
    image_url,       \* main: image_url
    stage,           \* last stage the run completed (workflow state)
    error,           \* kind of the failure the run reported, "none" if none
    message,         \* text reported with the failure
    caught,          \* the exception make_publish raised to its caller
    exit_code,       \* exit status of the process
    requests,        \* HTTP requests issued so far, in order
    responses,       \* HTTP responses received so far, in order
    clock,           \* int(time.time()), counted from the start of the run
    uuid_draws       \* number of draft markers drawn from uuid.uuid4() so far

vars == <<config, location, pc, article_content, data_id, image_url, stage,
          error, message, caught, exit_code, requests, responses,
          clock, uuid_draws>>

-----------------------------------------------------------------------------
(* Python values *)

PyNone == [t |-> "None"]
PyInt(n) == [t |-> "int", v |-> n]
PyStr(s) == [t |-> "str", v |-> s]
PyList(l) == [t |-> "list", v |-> l]
PyDict(d) == [t |-> "dict", v |-> d]

\* x is not None
IsNotNone(x) == x.t # "None"

\* bool(x)
Truthy(x) ==
    CASE x.t = "None" -> FALSE
      [] x.t = "int"  -> x.v # 0
      [] x.t = "str"  -> x.v # <<>>
      [] x.t = "list" -> x.v # <<>>
      [] x.t = "dict" -> DOMAIN x.v # {}

\* x == y for Python values (no error on values of different types)
PyEq(x, y) == x.t = y.t /\ (x.t = "None" \/ x.v = y.v)

\* d.get(key), d a dict
DictGet(d, key) == IF key \in DOMAIN d.v THEN d.v[key] ELSE PyNone

\* d.get(key, default)
DictGetOr(d, key, default) == IF key \in DOMAIN d.v THEN d.v[key] ELSE default

\* isinstance(x, dict)
IsDict(x) == x.t = "dict"

-----------------------------------------------------------------------------
(* Text operations *)

Q == "\""

IsSpace(tok) == tok \in {" ", "\n"}

\* str.lower() on one fragment
LowerTok(tok) ==
    CASE tok = "<HTML"     -> "<html"
      [] tok = "<!DOCTYPE" -> "<!doctype"
      [] OTHER             -> tok

\* text.lower()
Lower(text) == [i \in 1..Len(text) |-> LowerTok(text[i])]

RECURSIVE LStrip(_)
LStrip(text) ==
    IF text # <<>> /\ IsSpace(Head(text)) THEN LStrip(Tail(text)) ELSE text

RECURSIVE RStrip(_)
RStrip(text) ==
    IF text # <<>> /\ IsSpace(text[Len(text)])
    THEN RStrip(SubSeq(text, 1, Len(text) - 1))
    ELSE text

\* text.strip()
Strip(text) == RStrip(LStrip(text))

\* '<html' in text
ContainsHtmlTag(text) == \E i \in 1..Len(text) : text[i] = "<html"

\* text.startswith('<!')
StartsWithBang(text) ==
    text # <<>> /\ Head(text) \in {"<!DOCTYPE", "<!doctype", "<!--"}

\* text.startswith('<!DOCTYPE')
StartsWithDoctype(text) == text # <<>> /\ Head(text) = "<!DOCTYPE"

-----------------------------------------------------------------------------
(* json.loads on a text: scalars, and flat arrays and objects of scalars *)

\* the service hands out the draft ids 1..MaxDataId
MaxDataId == 2

\* create_image_block: imageOriginalWidth, imageOriginalHeight
ImageOriginalWidth == 1500
ImageOriginalHeight == 1000

\* the integer literals the texts of the model are written with
Numbers == (0..9) \cup (1..MaxDataId) \cup {101, 102, 200, 500}
           \cup {ImageOriginalWidth, ImageOriginalHeight}

JsonNumbers == {ToString(n) : n \in Numbers}

IntOf(tok) == CHOOSE n \in Numbers : ToString(n) = tok

\* index of the quote that closes a string, 0 if there is none; a backslash
\* escapes the character after it
RECURSIVE FindQuote(_, _)
FindQuote(text, i) ==
    IF i > Len(text) THEN 0
    ELSE IF text[i] = Q THEN i
    ELSE IF text[i] = "\\" THEN FindQuote(text, i + 2)
    ELSE FindQuote(text, i + 1)

\* the characters of a string literal, its escapes undone
RECURSIVE Unescape(_)
Unescape(s) ==
    IF s = <<>> THEN <<>>
    ELSE IF Head(s) = "\\" /\ Len(s) >= 2
    THEN <<IF s[2] = "n" THEN "\n" ELSE s[2]>> \o Unescape(SubSeq(s, 3, Len(s)))
    ELSE <<Head(s)>> \o Unescape(Tail(s))

RECURSIVE Lexemes(_, _)
Lexemes(text, i) ==
    IF i > Len(text) THEN <<>>
    ELSE LET tok == text[i] IN
         IF IsSpace(tok) THEN Lexemes(text, i + 1)
         ELSE IF tok = Q THEN
             LET j == FindQuote(text, i + 1) IN
             IF j = 0 THEN <<[k |-> "bad"]>>
             ELSE <<[k |-> "str", s |-> Unescape(SubSeq(text, i + 1, j - 1))]>>
                  \o Lexemes(text, j + 1)
         ELSE IF tok \in JsonNumbers THEN
             <<[k |-> "int", n |-> IntOf(tok)]>> \o Lexemes(text, i + 1)
         ELSE IF tok = "null" THEN
             <<[k |-> "null"]>> \o Lexemes(text, i + 1)
         ELSE IF tok \in {"{", "}", "[", "]", ":", ","} THEN
             <<[k |-> "p", c |-> tok]>> \o Lexemes(text, i + 1)
         ELSE <<[k |-> "bad"]>>

IsP(lx, c) == lx.k = "p" /\ lx.c = c

Scalar(lx) == lx.k \in {"str", "int", "null"}

ScalarVal(lx) ==
    CASE lx.k = "str"  -> PyStr(lx.s)
      [] lx.k = "int"  -> PyInt(lx.n)
      [] lx.k = "null" -> PyNone

JsonError == [ok |-> FALSE, val |-> PyNone]

\* the elements of an array: scalar ("," scalar)*
RECURSIVE Items(_)
Items(lx) ==
    IF Len(lx) = 1 /\ Scalar(lx[1])
    THEN [ok |-> TRUE, val |-> <<ScalarVal(lx[1])>>]
    ELSE IF Len(lx) >= 3 /\ Scalar(lx[1]) /\ IsP(lx[2], ",")
    THEN LET r == Items(SubSeq(lx, 3, Len(lx))) IN
         [ok |-> r.ok, val |-> <<ScalarVal(lx[1])>> \o r.val]
    ELSE [ok |-> FALSE, val |-> <<>>]

\* the members of an object: string ":" scalar ("," string ":" scalar)*
RECURSIVE Members(_)
Members(lx) ==
    IF Len(lx) >= 3 /\ lx[1].k = "str" /\ IsP(lx[2], ":") /\ Scalar(lx[3])
    THEN IF Len(lx) = 3
         THEN [ok |-> TRUE, val |-> << <<lx[1].s, ScalarVal(lx[3])>> >>]
         ELSE IF IsP(lx[4], ",")
         THEN LET r == Members(SubSeq(lx, 5, Len(lx))) IN
              [ok |-> r.ok, val |-> << <<lx[1].s, ScalarVal(lx[3])>> >> \o r.val]
         ELSE [ok |-> FALSE, val |-> <<>>]
    ELSE [ok |-> FALSE, val |-> <<>>]

\* a dict from its members; a repeated key keeps its last value
DictOf(pairs) ==
    [key \in {pairs[i][1] : i \in 1..Len(pairs)} |->
        LET last == CHOOSE i \in 1..Len(pairs) :
                        /\ pairs[i][1] = key
                        /\ \A j \in 1..Len(pairs) : pairs[j][1] = key => j <= i
        IN pairs[last][2]]

\* the parse of json.loads(text): [ok |-> FALSE] stands for JSONDecodeError
json_parse(text) ==
    LET lx == Lexemes(text, 1)
        n  == Len(lx)
    IN  IF n = 0 \/ \E i \in 1..n : lx[i].k = "bad" THEN JsonError
        ELSE IF n = 1
        THEN IF Scalar(lx[1]) THEN [ok |-> TRUE, val |-> ScalarVal(lx[1])]
             ELSE JsonError
        ELSE IF IsP(lx[1], "[") /\ IsP(lx[n], "]")
        THEN IF n = 2 THEN [ok |-> TRUE, val |-> PyList(<<>>)]
             ELSE LET r == Items(SubSeq(lx, 2, n - 1)) IN
                  IF r.ok THEN [ok |-> TRUE, val |-> PyList(r.val)] ELSE JsonError
        ELSE IF IsP(lx[1], "{") /\ IsP(lx[n], "}")
        THEN IF n = 2 THEN [ok |-> TRUE, val |-> PyDict(<<>>)]
             ELSE LET r == Members(SubSeq(lx, 2, n - 1)) IN
                  IF r.ok THEN [ok |-> TRUE, val |-> PyDict(DictOf(r.val))]
                  ELSE JsonError
        ELSE JsonError

-----------------------------------------------------------------------------
(* Response bodies the service can send *)

Member(key, val) == <<Q, key, Q, ":", " ">> \o val

JStr(s) == <<Q>> \o s \o <<Q>>

Sep == <<",", " ">>

Obj1(a) == <<"{">> \o a \o <<"}">>
Obj2(a, b) == <<"{">> \o a \o Sep \o b \o <<"}">>
Obj4(a, b, c, d) == <<"{">> \o a \o Sep \o b \o Sep \o c \o Sep \o d \o <<"}">>

CodeOk == Member("code", <<"0">>)

\* {"code": 0}
OkOnly == Obj1(CodeOk)
\* {"code": 0, "data": n}
OkId(n) == Obj2(CodeOk, Member("data", <<ToString(n)>>))
\* {"code": 0, "data": "2"}: the id as a string
OkIdText == Obj2(CodeOk, Member("data", JStr(<<ToString(MaxDataId)>>)))
\* {"code": 0, "data": "https://img/u1.jpg"}
OkUrl == Obj2(CodeOk, Member("data", JStr(<<"https://img/u1.jpg">>)))
\* {"code": 0, "data": null}
OkDataNull == Obj2(CodeOk, Member("data", <<"null">>))
\* {"code": 0, "data": 0}
OkDataZero == Obj2(CodeOk, Member("data", <<"0">>))
\* {"code": 0, "data": ""}
OkDataEmpty == Obj2(CodeOk, Member("data", JStr(<<>>)))
\* {"code": 0, "status": "success"}
OkSuccess == Obj2(CodeOk, Member("status", JStr(<<"success">>)))
\* {"code": 0, "status": "success", "message": "", "data": 102}
OkFull == Obj4(CodeOk, Member("status", JStr(<<"success">>)),
               Member("message", JStr(<<>>)), Member("data", <<"102">>))
\* {"code": 0, "status": "success", "message": "see <html> page", "data": 101}
OkHtmlInside == Obj4(CodeOk, Member("status", JStr(<<"success">>)),
                     Member("message", JStr(<<"see", " ", "<html", ">", " ", "page">>)),
                     Member("data", <<"101">>))
\* {"code": 7, "message": "busy"}
Busy == Obj2(Member("code", <<"7">>), Member("message", JStr(<<"busy">>)))
\* <!DOCTYPE html><html><body>Login</body></html>
HtmlDoctype == <<"<!DOCTYPE", " ", "html", ">", "<html", ">", "<body", ">",
                 "Login", "</body>", "</html>">>
\* Bad Gateway
Garbage == <<"Bad", " ", "Gateway">>
\* [1]
List1 == <<"[", "1", "]">>
\* 5
Num5 == <<"5">>

Bodies == {OkOnly, OkIdText, OkUrl, OkDataNull, OkDataZero, OkDataEmpty, OkSuccess, OkFull, OkHtmlInside,
           Busy, HtmlDoctype, Garbage, List1, Num5}
          \cup {OkId(n) : n \in 1..MaxDataId}

\* json.loads(text); the parses of the bodies above are computed once
ParsedBodies == [text \in Bodies |-> json_parse(text)]

json_loads(text) ==
    IF text \in Bodies THEN ParsedBodies[text] ELSE json_parse(text)

HTTP_OK == 200

Statuses == {HTTP_OK, 500}

\* What a blocking HTTP call comes back with: a response, or (exc) an exception
\* of the transport (requests.RequestException)
Outcomes ==
    [exc : {FALSE}, status : Statuses, text : Bodies]
    \cup {[exc |-> TRUE, status |-> 0, text |-> <<>>]}

-----------------------------------------------------------------------------
(* Inputs of a run *)

Titles == {<<>>, <<"Test Article">>}
AuthorNames == {<<>>, <<"Staff">>}
Contents == {<<>>, <<" ", "\n">>, <<"**bold**", " ", "text">>}

Configs ==
    [title : Titles, author_name : AuthorNames,
     image_link : {<<"https://x/img.jpg">>},
     content_exists : BOOLEAN, content : Contents, image_exists : BOOLEAN,
     article_credit : {<<"Staff">>}, image_credit : {<<"Staff">>}]

allowed_locations == {"Entire U.S", "Cambridge, MA", "Boston, MA", "Massachusetts State"}

DefaultLocation == "Entire U.S"

-----------------------------------------------------------------------------
(* Formatting *)

\* str(x) of a Python value, as used inside f-strings
StrOf(x) ==
    CASE x.t = "None" -> <<"None">>
      [] x.t = "str"  -> x.v
      [] x.t = "int"  -> <<ToString(x.v)>>

\* int(x) succeeds
IntConvertible(x) ==
    CASE x.t = "int" -> TRUE
      [] x.t = "str" -> Len(Strip(x.v)) = 1 /\ Strip(x.v)[1] \in JsonNumbers
      [] OTHER       -> FALSE

\* int(x), x convertible
int_of(x) == IF x.t = "int" THEN x.v ELSE IntOf(Strip(x.v)[1])

\* data.get('code') != 0
CodeNotZero(d) == ~PyEq(DictGet(d, <<"code">>), PyInt(0))

-----------------------------------------------------------------------------
(* Response validation helpers *)

\* process_json_response with "if not data.get('code')" for "!= 0"
process_json_response_falsy(response_text) ==
    LET r == json_loads(response_text) IN
    IF ~r.ok
    THEN [val |-> PyNone, log |-> "JsonParseFailure",
          msg |-> <<"Failed to parse response as JSON", "First 500 characters: ">>
                  \o response_text \o <<"...">>]
    ELSE IF IsDict(r.val) /\ ~Truthy(DictGet(r.val, <<"code">>))
    THEN [val |-> PyNone, log |-> "ApiError",
          msg |-> <<"API Error: ">>
                  \o StrOf(DictGetOr(r.val, <<"message">>, PyStr(<<"No error message">>)))]
    ELSE [val |-> r.val, log |-> "none", msg |-> <<>>]

\* newsbreak_api.process_json_response: the value returned, and what it logged
process_json_response(response_text) ==
    LET r == json_loads(response_text) IN
    IF ~r.ok
    THEN [val |-> PyNone, log |-> "JsonParseFailure",
          msg |-> <<"Failed to parse response as JSON", "First 500 characters: ">>
                  \o response_text \o <<"...">>]
    ELSE IF IsDict(r.val) /\ CodeNotZero(r.val)
    THEN [val |-> PyNone, log |-> "ApiError",
          msg |-> <<"API Error: ">>
                  \o StrOf(DictGetOr(r.val, <<"message">>, PyStr(<<"No error message">>)))]
    ELSE [val |-> r.val, log |-> "none", msg |-> <<>>]

\* make_publish.is_html_response
is_html_response(text) ==
    StartsWithBang(Strip(text)) \/ ContainsHtmlTag(Lower(text))

HtmlMessage == "Received HTML response instead of JSON. Session may have expired."

\* make_publish.validate_response: (is_valid, error_message)
validate_response(status_code, response_text) ==
    IF status_code # HTTP_OK
    THEN [is_valid |-> FALSE,
          error_message |-> <<"Request failed with status code: ">>
                            \o StrOf(PyInt(status_code))]
    ELSE LET text == Strip(response_text) IN
         IF is_html_response(text)
         THEN [is_valid |-> FALSE, error_message |-> <<HtmlMessage>>]
         ELSE LET r == json_loads(text) IN
              IF ~r.ok
              THEN [is_valid |-> FALSE,
                    error_message |-> <<"Failed to parse response as JSON">>]
              ELSE IF IsDict(r.val) /\ CodeNotZero(r.val)
              THEN [is_valid |-> FALSE,
                    error_message |->
                        <<"API returned error code: ">>
                        \o StrOf(DictGet(r.val, <<"code">>)) \o <<" - ">>
                        \o StrOf(DictGetOr(r.val, <<"message">>, PyStr(<<"No message">>)))]
              ELSE [is_valid |-> TRUE, error_message |-> <<>>]

\* validate_location that only rejects a missing location
validate_location_nonempty(loc) == loc # ""

\* make_publish.validate_location: TRUE when it returns, FALSE when it raises
validate_location(loc) == loc \in allowed_locations

-----------------------------------------------------------------------------
(* Exceptions *)

NoException ==
    [type |-> "none", message |-> <<>>, status_code |-> PyNone, response_text |-> PyNone]

\* make_publish.PublishError(message, status_code, response_text)
PublishError(msg, status_code, response_text) ==
    [type |-> "PublishError", message |-> msg,
     status_code |-> status_code, response_text |-> response_text]

Raised(type, msg) ==
    [type |-> type, message |-> msg, status_code |-> PyNone, response_text |-> PyNone]

\* what the body of make_publish's try block raises once the PUT has come back
make_publish_try(outcome) ==
    IF outcome.exc
    THEN Raised("RequestException", <<"connection failed">>)
    ELSE LET v == validate_response(outcome.status, outcome.text) IN
         IF ~v.is_valid
         THEN PublishError(v.error_message, PyInt(outcome.status), PyStr(outcome.text))
         ELSE NoException

\* the except clauses of make_publish: what reaches its caller
make_publish_except(e) ==
    IF e.type = "RequestException"
    THEN PublishError(<<"Network error occurred: ">> \o e.message, PyNone, PyNone)
    ELSE IF e.type # "none"
    THEN PublishError(<<"Unexpected error: ">> \o e.message, PyNone, PyNone)
    ELSE e

\* make_publish's input validation: the ValueError it raises, or NoException
make_publish_check(title, author_name, content, id, loc) ==
    IF ~(Truthy(PyStr(title)) /\ Truthy(PyStr(author_name))
         /\ Truthy(content) /\ Truthy(id))
    THEN Raised("ValueError",
                <<"Required fields missing: title, author_name, article_content, or data_id">>)
    ELSE IF ~validate_location(loc)
    THEN Raised("ValueError", <<"Invalid location. Must be one of: ...">>)
    ELSE NoException

-----------------------------------------------------------------------------
(* markdown.markdown on a text: paragraphs, block quotes, headings, strong *)

\* the inline markup of one fragment
InlineTok(tok) ==
    CASE tok = "**bold**" -> <<"<strong>", "bold", "</strong>">>
      [] tok = "&"        -> <<"&amp;">>
      [] OTHER            -> <<tok>>

RECURSIVE Inline(_)
Inline(text) ==
    IF text = <<>> THEN <<>> ELSE InlineTok(Head(text)) \o Inline(Tail(text))

\* index of the first fragment at or after i that is not a space
RECURSIVE SkipSpaces(_, _)
SkipSpaces(text, i) ==
    IF i <= Len(text) /\ text[i] = " " THEN SkipSpaces(text, i + 1) ELSE i

\* text[i] ends a line that is followed by a blank line
BlankLineAt(text, i) ==
    /\ text[i] = "\n"
    /\ SkipSpaces(text, i + 1) <= Len(text)
    /\ text[SkipSpaces(text, i + 1)] = "\n"

\* the blocks of a document: its pieces between blank lines, none of them empty
RECURSIVE SplitBlocks(_, _, _)
SplitBlocks(text, i, cur) ==
    LET done == IF Strip(cur) = <<>> THEN <<>> ELSE <<Strip(cur)>> IN
    IF i > Len(text) THEN done
    ELSE IF BlankLineAt(text, i)
    THEN done \o SplitBlocks(text, SkipSpaces(text, i + 1) + 1, <<>>)
    ELSE SplitBlocks(text, i + 1, Append(cur, text[i]))

IsQuote(block) == Head(block) = ">"

IsHeading(block) == Head(block) = "#" /\ Len(block) >= 2

\* a block that is neither quoted nor a heading is a paragraph
BlockHtml(block) ==
    IF IsHeading(block)
    THEN <<"<h1>">> \o Inline(Strip(Tail(block))) \o <<"</h1>">>
    ELSE <<"<p>">> \o Inline(block) \o <<"</p>">>

\* the elements of the blocks from the i-th on, one per line; quoted blocks that
\* follow each other share one blockquote element (quoted: it is still open)
RECURSIVE BlocksHtml(_, _, _)
BlocksHtml(blocks, i, quoted) ==
    LET close == IF quoted THEN <<"\n", "</blockquote>">> ELSE <<>>
        sep   == IF i > 1 THEN <<"\n">> ELSE <<>>
    IN  IF i > Len(blocks) THEN close
        ELSE IF IsQuote(blocks[i])
        THEN (IF quoted THEN <<"\n">> ELSE sep \o <<"<blockquote>", "\n">>)
             \o <<"<p>">> \o Inline(Strip(Tail(blocks[i]))) \o <<"</p>">>
             \o BlocksHtml(blocks, i + 1, TRUE)
        ELSE close \o sep \o BlockHtml(blocks[i]) \o BlocksHtml(blocks, i + 1, FALSE)

\* markdown.markdown(text)
markdown(text) == BlocksHtml(SplitBlocks(text, 1, <<>>), 1, FALSE)

-----------------------------------------------------------------------------
(* The content renderer *)

ParagraphOpen ==
    "<p class=\"NBAIEditor_Theme__paragraph\" dir=\"ltr\" style=\"text-align: start;\">"

\* index of the first tok in text at or after i, 0 if there is none
IndexOf(text, tok, i) ==
    IF \E k \in i..Len(text) : text[k] = tok
    THEN CHOOSE k \in i..Len(text) :
             text[k] = tok /\ \A m \in i..(k - 1) : text[m] # tok
    ELSE 0

\* wrap_paragraphs: re.sub(r'<p>(.*?)</p>', repl, html_text, flags=re.DOTALL)
RECURSIVE wrap_paragraphs(_)
wrap_paragraphs(html_text) ==
    LET i == IndexOf(html_text, "<p>", 1)
        j == IF i = 0 THEN 0 ELSE IndexOf(html_text, "</p>", i + 1)
    IN  IF j = 0 THEN html_text
        ELSE SubSeq(html_text, 1, i - 1)
             \o <<ParagraphOpen, "<span>">> \o SubSeq(html_text, i + 1, j - 1)
             \o <<"</span>", "</p>">>
             \o wrap_paragraphs(SubSeq(html_text, j + 1, Len(html_text)))

\* raw = markdown.markdown(credit).strip(), without its wrapping <p> tags when it
\* starts with "<p>" and ends with "</p>"
strip_wrapping_p(raw) ==
    IF raw # <<>> /\ Head(raw) = "<p>" /\ raw[Len(raw)] = "</p>" /\ Len(raw) >= 2
    THEN SubSeq(raw, 2, Len(raw) - 1)
    ELSE raw

\* build_article_json 71-73: the credit as it is embedded in the content
raw_credit(credit) == strip_wrapping_p(Strip(markdown(credit)))

-----------------------------------------------------------------------------
(* json.dumps and urllib.parse.quote *)

\* the characters of a fragment, for the fragments that are more than a word
\* (letters, digits, "_", ".", "-", "~") or a single character
PiecesOf(tok) ==
    CASE tok = "https://x/img.jpg"  -> <<"https", ":", "/", "/", "x", "/", "img.jpg">>
      [] tok = "https://img/u1.jpg" -> <<"https", ":", "/", "/", "img", "/", "u1.jpg">>
      [] tok = "testing_credit!"    -> <<"testing_credit", "!">>
      [] tok = "<p>"                -> <<"<", "p", ">">>
      [] tok = "</p>"               -> <<"<", "/", "p", ">">>
      [] tok = "<h1>"               -> <<"<", "h1", ">">>
      [] tok = "</h1>"              -> <<"<", "/", "h1", ">">>
      [] tok = "<strong>"           -> <<"<", "strong", ">">>
      [] tok = "</strong>"          -> <<"<", "/", "strong", ">">>
      [] tok = "&amp;"              -> <<"&", "amp", ";">>
      [] OTHER                      -> <<tok>>

RECURSIVE Pieces(_)
Pieces(text) ==
    IF text = <<>> THEN <<>> ELSE PiecesOf(Head(text)) \o Pieces(Tail(text))

\* the escape of one character inside a JSON string
EscapeTok(c) ==
    CASE c = Q    -> <<"\\", Q>>
      [] c = "\\" -> <<"\\", "\\">>
      [] c = "\n" -> <<"\\", "n">>
      [] OTHER    -> <<c>>

RECURSIVE Escape(_)
Escape(s) == IF s = <<>> THEN <<>> ELSE EscapeTok(Head(s)) \o Escape(Tail(s))

\* json.dumps(x) of a scalar
json_dumps(x) ==
    CASE x.t = "None" -> <<"null">>
      [] x.t = "int"  -> <<ToString(x.v)>>
      [] x.t = "str"  -> <<Q>> \o Escape(Pieces(x.v)) \o <<Q>>

\* json.dumps(d) of a dict given as its items, in order
RECURSIVE json_dumps_items(_)
json_dumps_items(items) ==
    IF items = <<>> THEN <<>>
    ELSE json_dumps(PyStr(items[1][1])) \o <<":", " ">> \o json_dumps(items[1][2])
         \o (IF Len(items) > 1 THEN <<",", " ">> ELSE <<>>)
         \o json_dumps_items(Tail(items))

json_dumps_dict(items) == <<"{">> \o json_dumps_items(items) \o <<"}">>

\* the characters urllib.parse.quote replaces, with their replacements; letters,
\* digits, "_", ".", "-", "~" and "/" are kept
PercentCodes ==
    (" " :> "%20") @@ (Q :> "%22") @@ ("{" :> "%7B") @@ ("}" :> "%7D")
    @@ (":" :> "%3A") @@ ("," :> "%2C") @@ ("\\" :> "%5C") @@ ("%" :> "%25")
    @@ ("<" :> "%3C") @@ (">" :> "%3E") @@ ("!" :> "%21") @@ ("&" :> "%26")
    @@ (";" :> "%3B") @@ ("\n" :> "%0A") @@ ("[" :> "%5B") @@ ("]" :> "%5D")
    @@ ("+" :> "%2B") @@ ("*" :> "%2A") @@ ("#" :> "%23")

\* urllib.parse.quote_plus: a space becomes "+"
quote_plus(text) ==
    [i \in 1..Len(text) |->
        IF text[i] = " " THEN "+"
        ELSE IF text[i] \in DOMAIN PercentCodes THEN PercentCodes[text[i]]
        ELSE text[i]]

\* urllib.parse.quote(text), text given by its characters
quote(text) ==
    [i \in 1..Len(text) |->
        IF text[i] \in DOMAIN PercentCodes THEN PercentCodes[text[i]] ELSE text[i]]

\* urllib.parse.unquote(text)
unquote(text) ==
    [i \in 1..Len(text) |->
        IF \E c \in DOMAIN PercentCodes : PercentCodes[c] = text[i]
        THEN CHOOSE c \in DOMAIN PercentCodes : PercentCodes[c] = text[i]
        ELSE text[i]]

-----------------------------------------------------------------------------
(* The image block *)

\* create_image_block: info_dict
info_dict(img_url, credit_text, width, height) ==
    << <<<<"type">>, PyStr(<<"editor-image-node">>)>>,
       <<<<"imageUrl">>, img_url>>,
       <<<<"imageCaption">>, PyStr(<<>>)>>,
       <<<<"creditText">>, PyStr(credit_text)>>,
       <<<<"creditUrl">>, PyStr(<<>>)>>,
       <<<<"imagePlatform">>, PyStr(<<"SELF_UPLOAD">>)>>,
       <<<<"imageOriginalWidth">>, PyInt(width)>>,
       <<<<"imageOriginalHeight">>, PyInt(height)>> >>

\* create_image_block(image_url, credit_text, width, height) of put_request;
\* generate_draft and make_publish have it with 1500 and 1000 written in
image_block_of(img_url, credit_text, width, height) ==
    LET info_str == quote(json_dumps_dict(info_dict(img_url, credit_text, width, height)))
    IN  <<"<figure>", "<div data-editornodeinfo=\"">> \o info_str
        \o <<"\">", "<div class=\"editor-image-wrap\">", "<div class=\"editor-image\">",
             "<img class=\"\" src=\"">> \o StrOf(img_url)
        \o <<"\" ", "data-image-caption=\"\" ", "data-credit-text=\"">> \o credit_text
        \o <<"\" ", "data-credit-url=\"\" ", "data-image-platform=\"SELF_UPLOAD\" ",
             "data-image-original-width=\"", ToString(width), "\" ",
             "data-image-original-height=\"", ToString(height), "\">",
             "</div>", "<span class=\"image-introduction-wrap\">",
             "<span class=\"photo-by\">Photo by</span>",
             "<span class=\"credit-text\">">> \o credit_text
        \o <<"</span>", "</span>", "</div>", "</div>", "</figure>">>

\* generate_draft.create_image_block, make_publish.create_image_block
create_image_block(img_url, credit_text) ==
    image_block_of(img_url, credit_text, ImageOriginalWidth, ImageOriginalHeight)

\* the CSS block, one fixed text
style_block == "<style style=\"display: none\">.NBAIEditor_Theme__ol1 {...}</style>"

empty_paragraph == "<p class=\"NBAIEditor_Theme__paragraph\"><br></p>"

\* generate_draft.build_article_json: title, content and covers of the dict
build_article_json(title, article_credit, image_link, image_credit, content) ==
    LET raw_image_credit == raw_credit(image_credit)
        image_block == create_image_block(PyStr(image_link), raw_image_credit)
        html_content == wrap_paragraphs(markdown(content))
        raw_article_credit == raw_credit(article_credit)
        article_credit_html ==
            <<ParagraphOpen, "<span>">> \o raw_article_credit \o <<"</span>", "</p>">>
        combined_content == article_credit_html \o html_content
    IN  [title |-> title,
         content |-> image_block \o combined_content \o <<style_block>>,
         covers |-> IF image_link # <<>> THEN PyList(<<PyStr(image_link)>>)
                    ELSE PyList(<<>>)]

\* make_publish 158-268: title, content and covers of the payload
publish_payload(title, image_link, image_credit, content) ==
    LET raw_image_credit == raw_credit(image_credit)
        html_content == wrap_paragraphs(markdown(content))
        image_block == IF Truthy(image_link)
                       THEN create_image_block(image_link, raw_image_credit)
                       ELSE <<>>
    IN  [title |-> title,
         content |-> image_block \o html_content \o <<empty_paragraph, style_block>>,
         covers |-> IF Truthy(image_link) THEN PyList(<<image_link>>) ELSE PyList(<<>>)]

-----------------------------------------------------------------------------
(* The run *)

StageOrder == <<"DraftCreated", "ImageUploaded", "ContentUpdated",
                "NlpCalculated", "Published">>

RequestOrder == <<"draft", "upload", "update", "nlp", "publish">>

Request(kind, id, title, content, image) ==
    [kind |-> kind, id |-> id, title |-> title, content |-> content, image |-> image]

Response(step, outcome) ==
    [step |-> step, status |-> outcome.status, text |-> outcome.text]

\* a failure of step 3 reported and the step started over instead of sys.exit(1)
SysExitRetry(kind, msg) ==
    /\ error' = kind
    /\ message' = msg
    /\ exit_code' = 1
    /\ pc' = IF pc = "put_response" THEN "update_content" ELSE "done"
    /\ UNCHANGED stage

\* sys.exit(1), after reporting a failure of kind `kind` with text `msg`
SysExit(kind, msg) ==
    /\ error' = kind
    /\ message' = msg
    /\ exit_code' = 1
    /\ pc' = "done"
    /\ UNCHANGED stage

\* the outermost handler without its sys.exit(1): the script ends normally
ExceptExceptionNoExit(msg) ==
    /\ error' = "Exception"
    /\ message' = <<"Error: ">> \o msg
    /\ exit_code' = 0
    /\ pc' = "done"
    /\ UNCHANGED stage

\* main's outermost handler: except Exception as e: print(f"Error: {e}"); sys.exit(1)
ExceptException(msg) == SysExit("Exception", <<"Error: ">> \o msg)

\* a step succeeded: the run goes on at `next`
Advance(next, newStage) ==
    /\ pc' = next
    /\ stage' = newStage
    /\ UNCHANGED <<error, message, exit_code>>

Send(req, next) ==
    /\ requests' = Append(requests, req)
    /\ pc' = next
    /\ UNCHANGED <<stage, error, message, exit_code>>

Receive(step, outcome) ==
    responses' = IF outcome.exc THEN responses
                 ELSE Append(responses, Response(step, outcome))

Init ==
    /\ config \in Configs
    /\ location = DefaultLocation
    /\ pc = "read_content"
    /\ article_content = PyNone
    /\ data_id = PyNone
    /\ image_url = PyNone
    /\ stage = "Idle"
    /\ error = "none"
    /\ message = <<>>
    /\ caught = NoException
    /\ exit_code = 0
    /\ requests = <<>>
    /\ responses = <<>>
    /\ clock = 0
    /\ uuid_draws = 0

\* main, lines 93-105: the content file is checked and read
ReadContent ==
    /\ pc = "read_content"
    /\ IF ~config.content_exists
       THEN /\ SysExit("ContentFileMissing", <<"Content file not found">>)
            /\ UNCHANGED article_content
       ELSE /\ article_content' = PyStr(config.content)
            /\ pc' = "create_draft"
            /\ UNCHANGED <<error, message, exit_code>>
    /\ UNCHANGED <<clock, uuid_draws, config, location, data_id, image_url, stage, caught,
                   requests, responses>>

\* random.randint(1000, 9999)
RandMin == 1000
RandMax == 9999

\* the values of random.randint the model follows: the ends of its range
RandInts == {RandMin, RandMax}

\* str(uuid.uuid4()), the n-th value drawn: no two draws give the same value
uuid4(n) == <<"uuid4-", ToString(n)>>

\* create_draft 201-203: f"{title} [{timestamp}-{random.randint(1000, 9999)}]"
unique_title(title, timestamp, rnd) ==
    title \o <<" [", ToString(timestamp), "-", ToString(rnd), "]">>

\* create_draft 204: f"{article_content}\n\n[Draft ID: {str(uuid.uuid4())}]"
unique_content(content, uuid) ==
    content \o <<"\n", "\n", "[Draft ID: ">> \o uuid \o <<"]">>

\* step 1, main 121-128 and create_draft: the title and the body are salted, the
\* article is rendered and POST /post/draft is issued
CreateDraft ==
    /\ pc = "create_draft"
    /\ \E rnd \in RandInts :
         LET article_dict ==
                 build_article_json(
                     unique_title(config.title, clock, rnd),
                     config.article_credit, config.image_link, config.image_credit,
                     unique_content(article_content.v, uuid4(uuid_draws + 1)))
         IN  Send(Request("draft", PyNone, article_dict.title,
                          PyStr(article_dict.content), article_dict.covers),
                  "draft_response")
    /\ uuid_draws' = uuid_draws + 1
    /\ UNCHANGED <<clock, config, location, article_content, data_id, image_url,
                   caught, responses>>

\* step 1, main 130-144: the draft response is processed
DraftResponse ==
    /\ pc = "draft_response"
    /\ \E outcome \in Outcomes :
        /\ Receive(1, outcome)
        /\ IF outcome.exc
           THEN /\ ExceptException(<<"connection failed">>)
                /\ UNCHANGED data_id
           ELSE LET r == process_json_response(outcome.text) IN
                IF ~Truthy(r.val)
                THEN /\ SysExit(IF r.log = "none" THEN "Failed" ELSE r.log,
                                r.msg \o <<"Failed to create draft">>)
                     /\ UNCHANGED data_id
                ELSE IF ~IsDict(r.val)
                THEN /\ ExceptException(<<"object has no attribute 'get'">>)
                     /\ UNCHANGED data_id
                ELSE /\ data_id' = DictGet(r.val, <<"data">>)
                     /\ IF ~Truthy(data_id')
                        THEN /\ SysExit("NoData", <<"No data_id in draft response">>)
                        ELSE Advance("upload_image", "DraftCreated")
    /\ UNCHANGED <<clock, uuid_draws, config, location, article_content, image_url, caught, requests>>

\* step 2 deleting the draft when the image file cannot be opened
UploadImageWithCleanup ==
    /\ pc = "upload_image"
    /\ IF ~config.image_exists
       THEN /\ ExceptException(<<"No such file or directory">>)
            /\ requests' = Append(requests, Request("delete", data_id, <<>>, PyNone, PyNone))
       ELSE Send(Request("upload", data_id, <<>>, PyNone, PyNone), "image_response")
    /\ UNCHANGED <<clock, uuid_draws, config, location, article_content, data_id, image_url,
                   caught, responses>>

\* step 2, main 146-158: upload_image opens the file and issues POST /storage/uploadFile
UploadImage ==
    /\ pc = "upload_image"
    /\ IF ~config.image_exists
       THEN /\ ExceptException(<<"No such file or directory">>)
            /\ UNCHANGED requests
       ELSE Send(Request("upload", data_id, <<>>, PyNone, PyNone), "image_response")
    /\ UNCHANGED <<clock, uuid_draws, config, location, article_content, data_id, image_url,
                   caught, responses>>

\* line 169 assigning to data_id instead of image_url
StoreImageUrlInDataId(value) ==
    /\ data_id' = value
    /\ UNCHANGED image_url

\* main 169: image_url = image_data.get("data")
StoreImageUrl(value) ==
    /\ image_url' = value
    /\ UNCHANGED data_id

\* step 2, main 160-174: the upload response is processed
ImageResponse ==
    /\ pc = "image_response"
    /\ \E outcome \in Outcomes :
        /\ Receive(2, outcome)
        /\ IF outcome.exc
           THEN /\ ExceptException(<<"connection failed">>)
                /\ UNCHANGED <<image_url, data_id>>
           ELSE LET r == process_json_response(outcome.text) IN
                IF ~Truthy(r.val)
                THEN /\ SysExit(IF r.log = "none" THEN "Failed" ELSE r.log,
                                r.msg \o <<"Failed to upload image">>)
                     /\ UNCHANGED <<image_url, data_id>>
                ELSE IF ~IsDict(r.val)
                THEN /\ ExceptException(<<"object has no attribute 'get'">>)
                     /\ UNCHANGED <<image_url, data_id>>
                ELSE /\ StoreImageUrl(DictGet(r.val, <<"data">>))
                     /\ IF ~Truthy(DictGet(r.val, <<"data">>))
                        THEN SysExit("NoData", <<"No image URL in response">>)
                        ELSE Advance("update_content", "ImageUploaded")
    /\ UNCHANGED <<clock, uuid_draws, config, location, article_content, caught, requests>>

\* main 195-200 with the title and the content of the draft request
put_request_args_salted ==
    [title |-> requests[1].title, content |-> requests[1].content]

\* main 195-200: title=config.title, content=article_content
put_request_args == [title |-> config.title, content |-> article_content]

\* step 3 without the test of lines 182-184
UpdateContentUnchecked ==
    /\ pc = "update_content"
    /\ Send(Request("update", data_id, put_request_args.title,
                    put_request_args.content, PyNone),
            "put_response")
    /\ UNCHANGED <<clock, uuid_draws, config, location, article_content, data_id, image_url,
                   caught, responses>>

\* step 3, main 176-200: the content file is read again and checked, then
\* make_put_request issues PUT /post/draft/{id}
UpdateContent ==
    /\ pc = "update_content"
    /\ IF Strip(config.content) = <<>>
       THEN /\ SysExit("EmptyContent", <<"Content file is empty">>)
            /\ UNCHANGED requests
       ELSE Send(Request("update", data_id, put_request_args.title,
                         put_request_args.content, PyNone),
                 "put_response")
    /\ UNCHANGED <<clock, uuid_draws, config, location, article_content, data_id, image_url,
                   caught, responses>>

\* main 212: the HTML test of step 3
put_is_html(put_response) ==
    ContainsHtmlTag(Lower(put_response)) \/ StartsWithDoctype(Strip(put_response))

\* step 3, main 202-233: the PUT response is processed
PutResponse ==
    /\ pc = "put_response"
    /\ \E outcome \in Outcomes :
        /\ Receive(3, outcome)
        /\ IF outcome.exc
           THEN SysExit("PutException",
                        <<"Unexpected error during PUT request: ", "connection failed">>)
           ELSE IF outcome.status # HTTP_OK
           THEN SysExit("HttpStatus",
                        <<"PUT request failed with status ">> \o StrOf(PyInt(outcome.status))
                        \o <<"Response: ">> \o outcome.text \o <<"...">>)
           ELSE IF put_is_html(outcome.text)
           THEN SysExit("SessionExpired", <<"Session expired - received HTML login page">>)
           ELSE LET r == json_loads(outcome.text) IN
                IF ~r.ok
                THEN SysExit("JsonParseFailure",
                             <<"Failed to parse response as JSON", "Response preview: ">>
                             \o outcome.text \o <<"...">>)
                ELSE IF IsDict(r.val) /\ CodeNotZero(r.val)
                THEN SysExit("ApiError",
                             <<"API Error: ">>
                             \o StrOf(DictGetOr(r.val, <<"message">>, PyStr(<<"Unknown error">>))))
                ELSE Advance("calculate_nlp", "ContentUpdated")
    /\ UNCHANGED <<clock, uuid_draws, config, location, article_content, data_id, image_url,
                   caught, requests>>

\* step 4 calling calculate_nlp with post_id=data_id, without int()
CalculateNlpUnconverted ==
    /\ pc = "calculate_nlp"
    /\ Send(Request("nlp", data_id, <<>>, PyNone, PyNone), "nlp_response")
    /\ UNCHANGED <<clock, uuid_draws, config, location, article_content, data_id, image_url,
                   caught, responses>>

\* step 4, main 236-240: int(data_id), then calculate_nlp issues POST /nlp/calculate
CalculateNlp ==
    /\ pc = "calculate_nlp"
    /\ IF ~IntConvertible(data_id)
       THEN /\ ExceptException(<<"invalid literal for int()">>)
            /\ UNCHANGED requests
       ELSE Send(Request("nlp", PyInt(int_of(data_id)), <<>>, PyNone, PyNone),
                 "nlp_response")
    /\ UNCHANGED <<clock, uuid_draws, config, location, article_content, data_id, image_url,
                   caught, responses>>

\* calculate.calculate_nlp, lines 66-72: the response dict it returns
nlp_response_dict(text) ==
    LET r == json_loads(text) IN
    IF r.ok THEN r.val
    ELSE PyDict((<<"code">> :> PyInt(-1)) @@ (<<"status">> :> PyStr(<<"error">>))
                @@ (<<"message">> :> PyStr(<<"Failed to parse JSON response">>)))

\* the NLP test with the code compared by "is not None"
nlp_succeeded_any_code(nlp_response) ==
    DictGet(nlp_response, <<"code">>).t # "None"

\* main 245: nlp_response.get("code") == 0 and nlp_response.get("status") == "success"
nlp_succeeded(nlp_response) ==
    /\ PyEq(DictGet(nlp_response, <<"code">>), PyInt(0))
    /\ PyEq(DictGet(nlp_response, <<"status">>), PyStr(<<"success">>))

\* step 4, main 242-249: the NLP response is processed
NlpResponse ==
    /\ pc = "nlp_response"
    /\ \E outcome \in Outcomes :
        /\ Receive(4, outcome)
        /\ IF outcome.exc
           THEN /\ ExceptException(<<"connection failed">>)
           ELSE LET nlp_response == nlp_response_dict(outcome.text) IN
                IF ~IsDict(nlp_response)
                THEN /\ ExceptException(<<"object has no attribute 'get'">>)
                ELSE IF nlp_succeeded(nlp_response)
                THEN Advance("make_publish", "NlpCalculated")
                ELSE /\ SysExit("NlpFailed",
                                <<"NLP calculation failed: ">>
                                \o StrOf(DictGetOr(nlp_response, <<"message">>,
                                                   PyStr(<<"Unknown error">>))))
    /\ UNCHANGED <<clock, uuid_draws, config, location, article_content, data_id, image_url,
                   caught, requests>>

\* main 259 with the image link of the configuration
publish_image_link_original == PyStr(config.image_link)

\* main 259: image_link=image_url
publish_image_link == image_url

\* step 5, main 254-264 and make_publish 145-285: the inputs are validated, the
\* article is rendered and PUT /post/publish/{id} is issued
MakePublish ==
    /\ pc = "make_publish"
    /\ LET e == make_publish_check(config.title, config.author_name,
                                   article_content, data_id, location) IN
       IF e.type # "none"
       THEN /\ ExceptException(e.message)
            /\ caught' = e
            /\ UNCHANGED requests
       ELSE /\ LET payload == publish_payload(config.title, publish_image_link,
                                               config.image_credit, article_content.v)
               IN  Send(Request("publish", data_id, payload.title,
                                PyStr(payload.content), payload.covers),
                        "publish_response")
            /\ UNCHANGED caught
    /\ UNCHANGED <<clock, uuid_draws, config, location, article_content, data_id, image_url, responses>>

\* step 5, make_publish 287-301 and main 266-286: the publish response is
\* validated; a PublishError is reported by main
PublishResponse ==
    /\ pc = "publish_response"
    /\ \E outcome \in Outcomes :
        /\ Receive(5, outcome)
        /\ LET e == make_publish_except(make_publish_try(outcome)) IN
           /\ caught' = e
           /\ IF e.type = "PublishError"
              THEN /\ SysExit("PublishError", <<"Publishing failed: ">> \o e.message)
              ELSE /\ stage' = "Published"
                   /\ pc' = "done"
                   /\ UNCHANGED <<error, message, exit_code>>
    /\ UNCHANGED <<clock, uuid_draws, config, location, article_content, data_id, image_url, requests>>

Next ==
    \/ ReadContent
    \/ CreateDraft
    \/ DraftResponse
    \/ UploadImage
    \/ ImageResponse
    \/ UpdateContent
    \/ PutResponse
    \/ CalculateNlp
    \/ NlpResponse
    \/ MakePublish
    \/ PublishResponse

Spec == Init /\ [][Next]_vars

\* make_publish called on its own, with any arguments
InitPublish ==
    /\ config \in {c \in Configs : c.content_exists /\ c.image_exists}
    /\ location \in allowed_locations \cup {"Paris", ""}
    /\ pc = "make_publish"
    /\ article_content = PyStr(config.content)
    /\ data_id \in {PyInt(n) : n \in 1..MaxDataId} \cup {PyStr(<<>>)}
    /\ image_url \in {PyStr(<<"https://img/u1.jpg">>), PyStr(<<>>)}
    /\ stage = "NlpCalculated"
    /\ error = "none"
    /\ message = <<>>
    /\ caught = NoException
    /\ exit_code = 0
    /\ requests = <<>>
    /\ responses = <<>>
    /\ clock = 0
    /\ uuid_draws = 0

NextPublish ==
    \/ MakePublish
    \/ PublishResponse

SpecPublish == InitPublish /\ [][NextPublish]_vars

\* create_draft called several times with the same arguments
MaxDraftCalls == 2
MaxClock == 1

InitDrafts ==
    /\ config \in {c \in Configs : c.content_exists}
    /\ location = DefaultLocation
    /\ pc = "create_draft"
    /\ article_content = PyStr(config.content)
    /\ data_id = PyNone
    /\ image_url = PyNone
    /\ stage = "Idle"
    /\ error = "none"
    /\ message = <<>>
    /\ caught = NoException
    /\ exit_code = 0
    /\ requests = <<>>
    /\ responses = <<>>
    /\ clock = 0
    /\ uuid_draws = 0

\* a second goes by
Tick ==
    /\ clock < MaxClock
    /\ clock' = clock + 1
    /\ UNCHANGED <<uuid_draws, config, location, pc, article_content, data_id,
                   image_url, stage, error, message, caught, exit_code,
                   requests, responses>>

\* create_draft has returned and its caller calls it again
CallAgain ==
    /\ pc = "draft_response"
    /\ uuid_draws < MaxDraftCalls
    /\ pc' = "create_draft"
    /\ UNCHANGED <<clock, uuid_draws, config, location, article_content, data_id,
                   image_url, stage, error, message, caught, exit_code,
                   requests, responses>>

NextDrafts ==
    \/ CreateDraft
    \/ CallAgain
    \/ Tick

SpecDrafts == InitDrafts /\ [][NextDrafts]_vars

\* the renderers called on their own: create_draft and make_publish on articles
\* with several kinds of body, credit and image link
MarkdownBodies ==
    {<<>>,
     <<"**bold**", " ", "text">>,
     <<"one", "\n", "\n", "two">>,
     <<">", " ", "quote">>,
     <<"intro", "\n", "\n", ">", " ", "quote">>,
     <<"#", " ", "Title">>}

Credits ==
    {<<>>,
     <<"Staff">>,
     <<"Jane", " ", Q, "J", Q, " ", "Doe", " ", "&", " ", "Co">>,
     <<"one", "\n", "\n", "two">>,
     <<"#", " ", "Title">>}

ImageLinks ==
    {<<>>,
     <<"https://x/img.jpg">>,
     <<"https", ":", "/", "/", "x", "/", "a", " ", "b", "%", "20", "/", "c.jpg">>}

RenderConfigs ==
    [title : {<<"Test Article">>}, author_name : {<<"Staff">>},
     image_link : ImageLinks,
     content_exists : {TRUE}, content : MarkdownBodies, image_exists : {TRUE},
     article_credit : Credits, image_credit : Credits]

InitRender ==
    /\ config \in RenderConfigs
    /\ location = DefaultLocation
    /\ pc \in {"create_draft", "make_publish"}
    /\ article_content = PyStr(config.content)
    /\ data_id = IF pc = "make_publish" THEN PyInt(1) ELSE PyNone
    /\ image_url = IF pc = "make_publish" THEN PyStr(config.image_link) ELSE PyNone
    /\ stage = IF pc = "make_publish" THEN "NlpCalculated" ELSE "Idle"
    /\ error = "none"
    /\ message = <<>>
    /\ caught = NoException
    /\ exit_code = 0
    /\ requests = <<>>
    /\ responses = <<>>
    /\ clock = 0
    /\ uuid_draws = 0

NextRender ==
    \/ CreateDraft
    \/ MakePublish

SpecRender == InitRender /\ [][NextRender]_vars

-----------------------------------------------------------------------------
(* Vocabulary of the properties *)

Range(seq) == {seq[i] : i \in 1..Len(seq)}

\* number of stages the run has completed
StageIndex ==
    IF stage = "Idle" THEN 0
    ELSE CHOOSE i \in 1..Len(StageOrder) : StageOrder[i] = stage

Issued(kind) == \E i \in 1..Len(requests) : requests[i].kind = kind

Failed == error # "none"

\* the failure was reported as an expired session (an HTML page was received)
SessionExpiredReported ==
    \/ error = "SessionExpired"
    \/ error = "PublishError" /\ HtmlMessage \in Range(message)

\* the body begins with a doctype or an html tag
IsHtmlDocument(text) ==
    LET t == Lower(Strip(text)) IN
    t # <<>> /\ Head(t) \in {"<!doctype", "<html"}

\* the parsed envelope of a response body, PyNone when the body is no JSON object
Envelope(text) ==
    LET r == json_loads(text) IN
    IF r.ok /\ IsDict(r.val) THEN r.val ELSE PyNone

\* the envelope's code is the integer n
HasCode(text, n) ==
    LET e == Envelope(text) IN
    IsDict(e) /\ PyEq(DictGet(e, <<"code">>), PyInt(n))

-----------------------------------------------------------------------------
(* C1 *)

C1_InOrder ==
    /\ Len(requests) <= Len(RequestOrder)
    /\ \A i \in 1..Len(requests) : requests[i].kind = RequestOrder[i]
    /\ Len(requests) <= StageIndex + 1
    /\ Failed => pc = "done"
    /\ \A i \in 1..Len(responses) :
          (responses[i].step = 4 /\ HasCode(responses[i].text, 7)) => ~Issued("publish")

\* C1: the five requests are issued in the order draft-create, image-upload,
\* content-update, NLP-calculate, publish; request k+1 is issued only once step k
\* was validated (the run completed k stages); once a step has failed no further
\* request is issued; an NLP response with code 7 is never followed by the
\* publish request.
C1_OrderedFailFast ==
    /\ []C1_InOrder
    /\ [][Failed => (requests' = requests /\ Failed')]_vars

\* C1 witness: the NLP step answered {code: 7, message: "busy"} and the run
\* stopped after four requests.
C1_Witness ==
    /\ pc = "done"
    /\ error = "NlpFailed"
    /\ Len(requests) = 4
    /\ Len(responses) = 4
    /\ responses[4].text = Busy
    /\ message = <<"NLP calculation failed: ", "busy">>

-----------------------------------------------------------------------------
(* C2 *)

\* C2: a run ends with exit code 0 or 1; 0 only when all five stages were
\* validated (Published, five responses received, no failure reported), 1 on
\* every failure, an exception inside a stage included; every reported failure
\* ends the run with exit code 1, and a run that ends short of Published never
\* ends with 0.
C2_ExitCodes ==
    /\ exit_code \in {0, 1}
    /\ (pc = "done" /\ exit_code = 0) =>
           (stage = "Published" /\ ~Failed /\ Len(responses) = 5)
    /\ (pc = "done" /\ stage # "Published") => (exit_code = 1 /\ Failed)
    /\ Failed => (pc = "done" /\ exit_code = 1 /\ stage # "Published")
    /\ exit_code = 1 => Failed

\* C2 witness: an exception raised inside a stage (after the content update
\* succeeded) ended the run with exit code 1.
C2_Witness ==
    /\ pc = "done"
    /\ error = "Exception"
    /\ stage = "ContentUpdated"
    /\ exit_code = 1

-----------------------------------------------------------------------------
(* C3 *)

Keys(text) == IF IsDict(Envelope(text)) THEN DOMAIN Envelope(text).v ELSE {}

\* HTTP 200 with the envelope {code: 0} and nothing else
OnlyCodeZero(r) ==
    /\ r.status = HTTP_OK
    /\ HasCode(r.text, 0)
    /\ Keys(r.text) = {<<"code">>}

\* HTTP 200 with the code-0 envelope of the step: {code: 0, data: d}, d not
\* empty, at steps 1 and 2; {code: 0} at steps 3 and 5; {code: 0, status:
\* "success"} at step 4
StepEnvelope(r) ==
    /\ r.status = HTTP_OK
    /\ HasCode(r.text, 0)
    /\ CASE r.step \in {1, 2} ->
              /\ Keys(r.text) = {<<"code">>, <<"data">>}
              /\ Truthy(DictGet(Envelope(r.text), <<"data">>))
         [] r.step \in {3, 5} -> Keys(r.text) = {<<"code">>}
         [] r.step = 4 ->
              /\ Keys(r.text) = {<<"code">>, <<"status">>}
              /\ PyEq(DictGet(Envelope(r.text), <<"status">>), PyStr(<<"success">>))

\* a run on well-formed input: title, author and body present, files in place
ValidInput ==
    /\ config.title # <<>>
    /\ config.author_name # <<>>
    /\ Strip(config.content) # <<>>
    /\ config.content_exists
    /\ config.image_exists

\* C3 as stated: on well-formed input, as long as every call returned HTTP 200
\* with {code: 0} and nothing else, the run has passed the stage of every call
\* answered so far (and so reaches Published with the fifth).
C3_Original ==
    ValidInput =>
        \A i \in 1..Len(responses) :
            (\A j \in 1..i : OnlyCodeZero(responses[j])) => StageIndex >= i

\* C3 (amended): as long as every call returned HTTP 200 with the code-0
\* envelope of its step ({code: 0, data: non-empty} at steps 1 and 2, {code: 0}
\* at steps 3 and 5, {code: 0, status: "success"} at step 4), the run has passed
\* the stage of every call answered so far; after the fifth it is Published and
\* ends with exit code 0.
C3_StepEnvelopesReachPublished ==
    /\ \A i \in 1..Len(responses) :
          (\A j \in 1..i : StepEnvelope(responses[j])) => StageIndex >= i
    /\ (Len(responses) = 5 /\ \A j \in 1..5 : StepEnvelope(responses[j])) =>
          (stage = "Published" /\ pc = "done" /\ exit_code = 0)

\* C3 witness: five step envelopes were received and the run is Published.
C3_Witness ==
    /\ Len(responses) = 5
    /\ \A j \in 1..5 : StepEnvelope(responses[j])
    /\ stage = "Published"

-----------------------------------------------------------------------------
(* C4 *)

\* C4 as stated: a response whose HTTP status is not 200 aborts the run at its
\* step, whatever its body: the run has failed and no later request was issued.
C4_NonOkStatusAborts ==
    \A i \in 1..Len(responses) :
        responses[i].status # HTTP_OK =>
            (Failed /\ pc = "done" /\ Len(requests) = responses[i].step)

-----------------------------------------------------------------------------
(* C5 *)

\* C5 as stated: at every step a response whose body is an HTML document is
\* reported as an expired session, not as an API error or a JSON parse failure.
C5_HtmlIsSessionExpired ==
    \A i \in 1..Len(responses) :
        IsHtmlDocument(responses[i].text) => SessionExpiredReported

-----------------------------------------------------------------------------
(* C6 *)

\* C6 as stated: a response is reported as an HTML page only when its body
\* begins with a doctype or html tag; an HTTP 200 code-0 JSON envelope is never
\* rejected as HTML.
C6_OnlyHtmlDocumentsRejected ==
    LET last == responses[Len(responses)] IN
    /\ SessionExpiredReported => (responses # <<>> /\ IsHtmlDocument(last.text))
    /\ (responses # <<>> /\ last.status = HTTP_OK /\ HasCode(last.text, 0))
          => ~SessionExpiredReported

-----------------------------------------------------------------------------
(* C7 *)

InvalidLocation == caught.type = "ValueError" /\ "Invalid location. Must be one of: ..." \in Range(caught.message)

RequiredFieldsPresent ==
    /\ config.title # <<>>
    /\ config.author_name # <<>>
    /\ Truthy(article_content)
    /\ Truthy(data_id)

\* C7: with a location outside the closed set make_publish raises a validation
\* error and issues no publish request; with a location inside the set the
\* location check passes (and, the required fields present, the request is issued).
C7_LocationValidated ==
    /\ location \notin allowed_locations =>
          /\ ~Issued("publish")
          /\ pc # "make_publish" => (caught.type = "ValueError" /\ Failed)
    /\ location \in allowed_locations => ~InvalidLocation
    /\ (location \in allowed_locations /\ RequiredFieldsPresent /\ pc # "make_publish")
          => Issued("publish")

\* C7 witness: make_publish was called with location "Paris" and every required
\* field present; it raised the location error without issuing a request.
C7_Witness ==
    /\ location = "Paris"
    /\ RequiredFieldsPresent
    /\ pc = "done"
    /\ InvalidLocation
    /\ requests = <<>>

-----------------------------------------------------------------------------
(* C8 *)

\* C8 as stated: when the validation error for a missing required field is
\* raised, no request of the run has been issued.
C8_ValidationBeforeAnyRequest ==
    caught.type = "ValueError" => requests = <<>>

-----------------------------------------------------------------------------
(* C9 *)

\* C9 as stated: when the publish response fails validation, the PublishError
\* that reaches the caller of make_publish carries the response's HTTP status
\* code and text.
C9_PublishErrorCarriesResponse ==
    (caught.type = "PublishError" /\ Len(responses) = 5) =>
        /\ PyEq(caught.status_code, PyInt(responses[5].status))
        /\ PyEq(caught.response_text, PyStr(responses[5].text))

-----------------------------------------------------------------------------
(* C10 *)

\* C10: the draft id and the uploaded image URL are write-once: each is
\* assigned only by its own step (1 and 2), and once it holds a value no later
\* step changes it.
C10_WriteOnce ==
    [][ /\ data_id.t # "None" => PyEq(data_id', data_id)
        /\ image_url.t # "None" => PyEq(image_url', image_url)
        /\ ~PyEq(data_id', data_id) => pc = "draft_response"
        /\ ~PyEq(image_url', image_url) => pc = "image_response" ]_vars

\* C10 witness: both values were recorded and steps 3, 4 and 5 have run.
C10_Witness ==
    /\ stage = "Published"
    /\ data_id.t # "None"
    /\ image_url.t # "None"

-----------------------------------------------------------------------------
(* Reading a rendered content back *)

\* the fragments of text after the first `open` up to the next `close`
Between(text, open, close) ==
    LET i == IndexOf(text, open, 1)
        j == IF i = 0 THEN 0 ELSE IndexOf(text, close, i + 1)
    IN  IF j = 0 THEN <<>> ELSE SubSeq(text, i + 1, j - 1)

\* sub occurs in text as a contiguous piece
Contains(text, sub) ==
    \E i \in 0..(Len(text) - Len(sub)) : SubSeq(text, i + 1, i + Len(sub)) = sub

HasImageBlock(content) == content # <<>> /\ Head(content) = "<figure>"

\* the metadata blob of the image block, percent-decoded and parsed
ImageInfo(content) ==
    json_parse(unquote(Between(content, "<div data-editornodeinfo=\"", "\">")))

\* the src attribute of the image element
ImageSrc(content) == Between(content, "<img class=\"\" src=\"", "\" ")

\* the credit shown under the image
CreditText(content) == Between(content, "<span class=\"credit-text\">", "</span>")

\* what follows the image block
AfterImage(content) ==
    SubSeq(content, IndexOf(content, "</figure>", 1) + 1, Len(content))

DraftRequests == {i \in 1..Len(requests) : requests[i].kind = "draft"}

-----------------------------------------------------------------------------
(* C11 *)

\* the identifier of the step-1 response, the URL of the step-2 response
DraftId == DictGet(Envelope(responses[1].text), <<"data">>)
UploadedUrl == DictGet(Envelope(responses[2].text), <<"data">>)

\* the request `r` carries the identifier of step 1 and, at publication, the
\* URL of step 2
Threaded(r) ==
    /\ r.kind \in {"upload", "update", "publish"} => PyEq(r.id, DraftId)
    /\ r.kind = "nlp" => (r.id.t = "int" /\ StrOf(r.id) = StrOf(DraftId))
    /\ r.kind = "publish" =>
          /\ r.image = PyList(<<UploadedUrl>>)
          /\ r.image # PyList(<<PyStr(config.image_link)>>)
          /\ HasImageBlock(r.content.v)
          /\ ImageSrc(r.content.v) = StrOf(UploadedUrl)
          /\ ImageSrc(r.content.v) # config.image_link
          /\ ImageInfo(r.content.v).ok
          /\ PyEq(DictGet(ImageInfo(r.content.v).val, <<"imageUrl">>),
                  IF UploadedUrl.t = "str" THEN PyStr(Pieces(UploadedUrl.v))
                  ELSE UploadedUrl)

\* C11: the image-upload, content-update and publish requests carry the
\* identifier of the step-1 response and the NLP request carries it as an
\* integer; the cover, the image element and the metadata blob of the publish
\* payload are the URL of the step-2 response, not the image link of the input.
\* Stated of every request at the step that sends it.
C11_IdentifiersThreaded ==
    [][Len(requests') > Len(requests) => Threaded(requests'[Len(requests')])]_vars

\* C11 witness: the draft id came as the string "2", the upload returned a URL,
\* and all five requests were issued.
C11_Witness ==
    /\ Len(requests) = 5
    /\ data_id.t = "str"
    /\ requests[4].id = PyInt(MaxDataId)
    /\ image_url = PyStr(<<"https://img/u1.jpg">>)

-----------------------------------------------------------------------------
(* C12 *)

\* C12 as stated: any two create_draft calls with the same input fields send
\* payloads with different titles and different bodies.
C12_ConsecutiveDraftsDiffer ==
    \A i \in DraftRequests : \A j \in DraftRequests :
        i < j => /\ requests[i].title # requests[j].title
                 /\ requests[i].content # requests[j].content

-----------------------------------------------------------------------------
(* C13 *)

\* the text carries a salt of create_draft: the bracketed suffix or the marker
Salted(text) ==
    \/ " [" \in Range(text)
    \/ "[Draft ID: " \in Range(text)

\* the request `r` is salted if it is the draft request, and only then
SaltOnlyInDraft(r) ==
    /\ r.kind = "draft" => (Salted(r.title) /\ Salted(r.content.v))
    /\ r.kind = "update" =>
          /\ r.title = config.title
          /\ r.content = PyStr(config.content)
    /\ r.kind = "publish" =>
          /\ r.title = config.title
          /\ ~Salted(r.content.v)
          /\ Contains(r.content.v,
                      wrap_paragraphs(markdown(config.content)) \o <<empty_paragraph>>)

\* C13: the draft request is salted in its title and its body; the
\* content-update request carries the title and the body as the caller gave
\* them, and the publish request the caller's title and the rendering of the
\* caller's body, both without salt.  Stated of every request at the step that
\* sends it.
C13_SaltStaysInDraft ==
    [][Len(requests') > Len(requests) => SaltOnlyInDraft(requests'[Len(requests')])]_vars

\* C13 witness: the draft was sent salted and the content-update and publish
\* requests were sent after it.
C13_Witness ==
    /\ Len(requests) = 5
    /\ Salted(requests[1].title)
    /\ requests[3].title = <<"Test Article">>
    /\ requests[5].title = <<"Test Article">>

-----------------------------------------------------------------------------
(* C14 *)

\* the fields the NLP step's success could depend on: code, status, message
NlpTriple(text) ==
    LET d == nlp_response_dict(text) IN
    <<DictGet(d, <<"code">>), DictGet(d, <<"status">>), DictGet(d, <<"message">>)>>

\* the NLP test of main accepts the body
NlpAccepts(text) ==
    IsDict(nlp_response_dict(text)) /\ nlp_succeeded(nlp_response_dict(text))

\* C14 as stated: the combination of code, status and message the run advanced
\* on at step 4 is the only one the NLP step accepts: every body that differs
\* from it in one of the three fields is refused.
C14_OneTripleAdvances ==
    StageIndex >= 4 =>
        \A text \in Bodies :
            NlpAccepts(text) => NlpTriple(text) = NlpTriple(responses[4].text)

-----------------------------------------------------------------------------
(* C15 *)

\* the body parses as a JSON object that has a code field
ExpectedEnvelope(text) ==
    IsDict(Envelope(text)) /\ <<"code">> \in DOMAIN Envelope(text).v

\* the run stopped at the step of response r: it failed and issued no later request
AbortedAt(r) == Failed /\ pc = "done" /\ Len(requests) = r.step

\* C15 as stated: at every step a response whose body is not the expected
\* envelope (not JSON, or JSON that is no object with a code field) aborts the
\* run at that step.
C15_UnparsableAborts ==
    \A i \in 1..Len(responses) :
        ~ExpectedEnvelope(responses[i].text) => AbortedAt(responses[i])

-----------------------------------------------------------------------------
(* C16 *)

\* the body is a JSON envelope with a code other than 0 that carries a message
ErrorEnvelope(text) ==
    /\ ExpectedEnvelope(text)
    /\ ~HasCode(text, 0)
    /\ DictGet(Envelope(text), <<"message">>).t = "str"

\* C16 as stated: a response that is a JSON envelope with code != 0 aborts the
\* run at its step, and the failure reported contains the envelope's message.
C16_ErrorMessageReported ==
    \A i \in 1..Len(responses) :
        ErrorEnvelope(responses[i].text) =>
            /\ AbortedAt(responses[i])
            /\ Contains(message, DictGet(Envelope(responses[i].text), <<"message">>).v)

-----------------------------------------------------------------------------
(* C17 *)

\* the contents of the paragraphs of an HTML text that are not inside a block
\* quote, in their order (depth: the number of block quotes open at i)
RECURSIVE TopLevelInners(_, _, _)
TopLevelInners(html, i, depth) ==
    IF i > Len(html) THEN <<>>
    ELSE IF html[i] = "<blockquote>" THEN TopLevelInners(html, i + 1, depth + 1)
    ELSE IF html[i] = "</blockquote>" THEN TopLevelInners(html, i + 1, depth - 1)
    ELSE IF html[i] = "<p>" /\ depth = 0
    THEN LET j == IndexOf(html, "</p>", i + 1) IN
         <<SubSeq(html, i + 1, j - 1)>> \o TopLevelInners(html, j + 1, depth)
    ELSE TopLevelInners(html, i + 1, depth)

\* the contents of the decorated paragraph blocks of a rendered content, in
\* their order: what stands between the opening tag with its span and the next
\* closing span
RECURSIVE DecoratedInners(_, _)
DecoratedInners(content, i) ==
    LET k == IndexOf(content, ParagraphOpen, i)
        j == IF k = 0 THEN 0 ELSE IndexOf(content, "</span>", k + 1)
    IN  IF j = 0 THEN <<>>
        ELSE <<SubSeq(content, k + 2, j - 1)>> \o DecoratedInners(content, j + 1)

RenderRequests ==
    {i \in 1..Len(requests) : requests[i].kind \in {"draft", "publish"}}

\* the Markdown body the renderer was given: create_draft passes the salted
\* body to build_article_json, make_publish renders the body of its caller
RendererBody(r) ==
    IF r.kind = "draft" THEN unique_content(config.content, uuid4(uuid_draws))
    ELSE config.content

\* the decorated blocks emitted for the body: on the draft path the first
\* decorated block of the content is the credit paragraph
BodyBlocks(r) ==
    IF r.kind = "draft" THEN Tail(DecoratedInners(r.content.v, 1))
    ELSE DecoratedInners(r.content.v, 1)

\* C17 as stated: the decorated paragraph blocks emitted for a body are exactly
\* its top-level paragraphs, in their order and with their inline markup; a
\* paragraph nested in a block quote is not decorated.
C17_OnlyTopLevelDecorated ==
    \A i \in RenderRequests :
        BodyBlocks(requests[i])
            = TopLevelInners(markdown(RendererBody(requests[i])), 1, 0)

-----------------------------------------------------------------------------
(* C18 *)

\* an attribute of the image element that holds a number
ImageAttr(content, name) == IntOf(Between(content, name, "\" ")[1])

\* the metadata blob of the content, decoded, is the dictionary built from the
\* URL and the credit given to create_image_block and the sizes of the block
BlobIsExact(content, url, credit) ==
    LET info == ImageInfo(content)
        field(k) == DictGet(info.val, <<k>>)
    IN  /\ info.ok
        /\ IsDict(info.val)
        /\ field("type") = PyStr(<<"editor-image-node">>)
        /\ field("imageUrl") = PyStr(Pieces(url))
        /\ field("creditText") = PyStr(Pieces(credit))
        /\ field("imagePlatform") = PyStr(<<"SELF_UPLOAD">>)
        /\ field("imageOriginalWidth") = PyInt(ImageOriginalWidth)
        /\ field("imageOriginalHeight") = PyInt(ImageOriginalHeight)
        /\ field("imageOriginalWidth")
              = PyInt(ImageAttr(content, "data-image-original-width=\""))

\* C18: percent-decoding and JSON-parsing the metadata blob of an image block
\* gives back the type, the image URL and the credit text it was built from,
\* imagePlatform = "SELF_UPLOAD" and the width and height of the block.
C18_BlobRoundTrip ==
    \A i \in RenderRequests :
        HasImageBlock(requests[i].content.v) =>
            BlobIsExact(requests[i].content.v, config.image_link,
                        raw_credit(config.image_credit))

\* C18 witness: a block was built from a URL with a space and a percent sign
\* and a credit with quotation marks and an ampersand, and its blob carries
\* the escaped quotation mark percent-encoded.
C18_Witness ==
    /\ requests # <<>>
    /\ HasImageBlock(requests[1].content.v)
    /\ "%" \in Range(config.image_link)
    /\ Q \in Range(config.image_credit)
    /\ Contains(requests[1].content.v, <<"%5C", "%22", "J", "%5C", "%22">>)
    /\ Contains(requests[1].content.v, <<"a", "%20", "b", "%25", "20">>)

-----------------------------------------------------------------------------
(* C19 *)

\* number of paragraph elements of an HTML text
RECURSIVE ParagraphCount(_)
ParagraphCount(html) ==
    IF html = <<>> THEN 0
    ELSE (IF Head(html) = "<p>" THEN 1 ELSE 0) + ParagraphCount(Tail(html))

\* the rendered credit is one paragraph and nothing else
IsOneParagraph(rendered) ==
    /\ ParagraphCount(rendered) = 1
    /\ Head(rendered) = "<p>"
    /\ rendered[Len(rendered)] = "</p>"

\* the credit as the claim has it embedded: without its wrapping tags when it
\* is exactly one paragraph, as rendered otherwise
CreditAsStated(credit) ==
    LET rendered == Strip(markdown(credit)) IN
    IF IsOneParagraph(rendered) THEN SubSeq(rendered, 2, Len(rendered) - 1)
    ELSE rendered

\* C19 as stated: the credit under the image is the rendered image credit
\* without its wrapping paragraph tags when it is exactly one paragraph, and
\* the rendered credit with nothing removed when it has several paragraphs or
\* no wrapping tag.
C19_CreditStrippedOnlyIfOneParagraph ==
    \A i \in RenderRequests :
        HasImageBlock(requests[i].content.v) =>
            CreditText(requests[i].content.v) = CreditAsStated(config.image_credit)

-----------------------------------------------------------------------------
(* C20 *)

\* the decorated paragraph that carries the article credit
CreditParagraph ==
    <<ParagraphOpen, "<span>">> \o raw_credit(config.article_credit)
    \o <<"</span>", "</p>">>

\* the decorated paragraphs of the body the renderer was given
BodyParagraphs(r) == wrap_paragraphs(markdown(RendererBody(r)))

\* the content of the request is laid out in the order of its path
Ordered(r) ==
    /\ HasImageBlock(r.content.v)
    /\ r.kind = "draft" =>
          AfterImage(r.content.v)
              = CreditParagraph \o BodyParagraphs(r) \o <<style_block>>
    /\ r.kind = "publish" =>
          AfterImage(r.content.v)
              = BodyParagraphs(r) \o <<empty_paragraph, style_block>>

\* C20 as stated: every rendered content is [image block][credit paragraph]
\* [body paragraphs][CSS block] on the draft path and [image block]
\* [body paragraphs][empty paragraph][CSS block] on the publish path.
C20_ContentOrdered ==
    \A i \in RenderRequests : Ordered(requests[i])

-----------------------------------------------------------------------------
(* C21 *)

\* a field the renderer requires is absent: the body or the image URL is empty
RequiredFieldAbsent == config.content = <<>> \/ config.image_link = <<>>

\* the renderer of the path has been called
RendererCalled == pc \notin {"create_draft", "make_publish"}

\* C21 as stated: with an empty body or an empty image URL the renderer of
\* either path fails with an error and produces no content.
C21_AbsentFieldFails ==
    (RequiredFieldAbsent /\ RendererCalled) => (Failed /\ RenderRequests = {})

-----------------------------------------------------------------------------
(* C22 *)

\* the step of the i-th response accepted it: the run completed that stage
Accepted(i) == StageIndex >= responses[i].step

\* C22 as stated: the validations of steps 1, 2 and 3 decide alike: two
\* responses of these steps with the same HTTP status and the same body are
\* both accepted or both rejected.
C22_SameValidation ==
    \A i \in 1..Len(responses) : \A j \in 1..Len(responses) :
        ( /\ responses[i].step \in {1, 2, 3}
          /\ responses[j].step \in {1, 2, 3}
          /\ responses[i].status = responses[j].status
          /\ responses[i].text = responses[j].text )
        => (Accepted(i) <=> Accepted(j))

-----------------------------------------------------------------------------
(* C23 *)

\* the request issued by the step, if it issues one
NewRequest == requests'[Len(requests')]

\* C23: within one run no request is issued twice: a step that issues a request
\* issues one whose kind was not issued before, whatever the responses received
\* so far (error envelopes included); once the run has failed it stays ended
\* and issues nothing more.
C23_NoRetryNoResume ==
    [][ /\ requests' # requests =>
             /\ Len(requests') = Len(requests) + 1
             /\ ~Issued(NewRequest.kind)
             /\ \A i \in 1..Len(responses) :
                    NewRequest.kind # RequestOrder[responses[i].step]
        /\ Failed => (Failed' /\ pc' = "done" /\ requests' = requests) ]_vars

\* C23 witness: step 3 answered the error envelope {code: 7, message: "busy"}
\* and the run ended with three requests issued, one of each kind.
C23_Witness ==
    /\ pc = "done"
    /\ Failed
    /\ Len(requests) = 3
    /\ Len(responses) = 3
    /\ responses[3].status = HTTP_OK
    /\ responses[3].text = Busy

-----------------------------------------------------------------------------
(* C24 *)

\* C24: a step that leaves the run aborted after the draft was created issues
\* no request, and neither does any step after it; the requests already issued
\* stay as they were, and every request of a run is one of the five of the
\* workflow (there is no delete or cleanup request).
C24_NoRollback ==
    [][ /\ (Failed' /\ StageIndex' >= 1) => requests' = requests
        /\ \A i \in 1..Len(requests) :
               Len(requests') >= i /\ requests'[i] = requests[i]
        /\ \A i \in 1..Len(requests') :
               requests'[i].kind \in Range(RequestOrder) ]_vars

\* C24 witness: the draft was created, the run failed at the image upload and
\* ended with the two requests it had issued.
C24_Witness ==
    /\ pc = "done"
    /\ Failed
    /\ stage = "DraftCreated"
    /\ Len(requests) = 2
    /\ requests[1].kind = "draft"

-----------------------------------------------------------------------------
(* C25 *)

\* the value is None (also what a missing field reads as), 0 or empty
IsEmptyValue(x) ==
    \/ x = PyNone
    \/ x = PyInt(0)
    \/ x \in {PyStr(<<>>), PyList(<<>>)}

\* a code-0 envelope whose data field is missing, null, 0 or empty
SuccessWithoutData(text) ==
    /\ HasCode(text, 0)
    /\ IsEmptyValue(DictGet(Envelope(text), <<"data">>))

\* the value of the data field of the response of `step`
ExtractedAt(step) ==
    LET i == CHOOSE i \in 1..Len(responses) : responses[i].step = step
    IN  DictGet(Envelope(responses[i].text), <<"data">>)

\* C25: a step-1 or step-2 response that is a code-0 envelope with a missing,
\* null, 0 or empty data field ends the run with exit code 1 at that step, the
\* request of the next step never issued; the run is past step 1 (step 2) only
\* with the non-empty identifier (image URL) it extracted from the response.
C25_EmptyDataAborts ==
    /\ \A i \in 1..Len(responses) :
          (responses[i].step \in {1, 2} /\ SuccessWithoutData(responses[i].text)) =>
              /\ pc = "done"
              /\ exit_code = 1
              /\ StageIndex = responses[i].step - 1
              /\ Len(requests) = responses[i].step
    /\ StageIndex >= 1 => (~IsEmptyValue(data_id) /\ data_id = ExtractedAt(1))
    /\ StageIndex >= 2 => (~IsEmptyValue(image_url) /\ image_url = ExtractedAt(2))

\* C25 witness: the upload answered {"code": 0, "data": ""} and the run ended
\* with exit code 1 after two requests.
C25_Witness ==
    /\ Len(responses) = 2
    /\ responses[2].text = OkDataEmpty
    /\ error = "NoData"
    /\ exit_code = 1
    /\ Len(requests) = 2

-----------------------------------------------------------------------------
(* C26 *)

\* the content file is empty or holds only whitespace
ContentEmpty == Strip(config.content) = <<>>

\* C26: with an empty or whitespace-only content file no content-update, NLP
\* or publish request is issued and the run ends with exit code 1; the
\* emptiness is found only at step 3: the draft request is issued all the same,
\* and the run stops on it after the draft-create and image-upload requests
\* were issued and their two stages completed.
C26_EmptyContentStopsAtStep3 ==
    /\ ContentEmpty =>
          /\ ~Issued("update") /\ ~Issued("nlp") /\ ~Issued("publish")
          /\ pc = "done" => exit_code = 1
          /\ (config.content_exists /\ pc \notin {"read_content", "create_draft"})
                => Issued("draft")
          /\ (stage = "ImageUploaded" /\ pc = "done") => error = "EmptyContent"
    /\ error = "EmptyContent" =>
          /\ ContentEmpty
          /\ stage = "ImageUploaded"
          /\ Len(requests) = 2
          /\ Len(responses) = 2

\* C26 witness: the content file holds only whitespace; the draft and the
\* image were sent and accepted and the run ended at step 3 with exit code 1.
C26_Witness ==
    /\ config.content = <<" ", "\n">>
    /\ error = "EmptyContent"
    /\ stage = "ImageUploaded"
    /\ exit_code = 1
    /\ Len(requests) = 2

-----------------------------------------------------------------------------
(* C27 *)

\* step 1 recorded an identifier that int() does not convert
IdNotConvertible == StageIndex >= 1 /\ ~IntConvertible(data_id)

\* C27: with an identifier from step 1 that is not convertible to an integer,
\* the NLP and publish requests are never issued and the run ends with exit
\* code 1; steps 2 and 3 run with that identifier, and once they have succeeded
\* the run ends at step 4, on the exception of the conversion, with three
\* requests issued.
C27_UnconvertibleIdAbortsAtStep4 ==
    IdNotConvertible =>
        /\ ~Issued("nlp") /\ ~Issued("publish")
        /\ pc = "done" => (exit_code = 1 /\ Failed)
        /\ \A i \in 1..Len(requests) :
               requests[i].kind \in {"upload", "update"} => requests[i].id = data_id
        /\ (stage = "ContentUpdated" /\ pc # "calculate_nlp") =>
               /\ pc = "done"
               /\ error = "Exception"
               /\ exit_code = 1
               /\ Len(requests) = 3
               /\ Len(responses) = 3

\* C27 witness: step 1 returned a URL as the identifier, steps 2 and 3 were
\* accepted with it and the run ended at step 4 with exit code 1.
C27_Witness ==
    /\ data_id = PyStr(<<"https://img/u1.jpg">>)
    /\ stage = "ContentUpdated"
    /\ pc = "done"
    /\ error = "Exception"
    /\ exit_code = 1
    /\ Len(requests) = 3
    /\ requests[3].id = data_id

====
